---- MODULE Spec2Model ----
(***************************************************************************)
(* State-machine model of pyFDTR: the Domain heat path builder             *)
(* (src/pyFDTR/domain.py) and the FourierModelFDTR evaluator and fit loop   *)
(* (src/pyFDTR/fouriermodel.py).                                            *)
(*                                                                         *)
(* Numbers.  Python floats are carried as scaled integers: thermal         *)
(* properties (cp, kxx, kyy, kxy, kzz, density) in units of 1e-3,          *)
(* thicknesses in units of 1e-7 cm (nm), conductances in W/cm2K.           *)
(* A field value is a record [num, sym]: a literal number has sym = "",    *)
(* a sympy placeholder has the symbol's name in sym, and NoAttr stands for *)
(* an attribute the Python object does not have in its instance dict.      *)
(***************************************************************************)
EXTENDS Integers, Sequences, FiniteSets, TLC

VARIABLES
    heat_path,          \* Domain.heat_path: list of Layer / LayerInterface objects
    top_heat_path,      \* Domain.top_heat_path
    substrate_defined,  \* Domain.substrate_defined as seen through self
    domain_matrix,      \* Domain.matrix, set by calc_transfer_matrix / calc_top_transfer_matrix
    last,               \* the last Domain call: arguments, outcome, pre-state
    temperature,        \* Domain.temperature
    nsets,              \* calls made so far: [param |-> set_layer_param, condu |-> set_interface_condu]
    fitting_params,     \* Fitting_parameters.parameters of the one parameter set
    model,              \* the FourierModelFDTR object
    fit,                \* progress of a running FourierModelFDTR.minimize call
    mlast,              \* the last model call: arguments and outcome
    model_b,            \* a second FourierModelFDTR on the same Domain and Fitting_parameters
    calls,              \* get_phase calls running concurrently on model, one per thread
    domain_b            \* a second Domain object of the same script

domvars == <<heat_path, top_heat_path, substrate_defined, temperature, last, nsets, domain_b>>
peers == <<model_b, calls>>
modvars == <<fitting_params, model, fit, mlast, peers>>
vars == <<heat_path, top_heat_path, substrate_defined, temperature, domain_matrix, last, nsets,
          fitting_params, model, fit, mlast, model_b, calls, domain_b>>

----------------------------------------------------------------------------
(* Bounds of the exploration *)

MaxLayers == 2      \* add_layer calls that may append to heat_path
MaxTop == 1         \* add_toplayer calls that may append to top_heat_path
MaxParamCalls == 1  \* set_layer_param calls per run
MaxConduCalls == 1  \* set_interface_condu calls per run
MaxKeys == 2        \* keyword arguments in one set_layer_param call

----------------------------------------------------------------------------
(* Values *)

Num(n) == [num |-> n, sym |-> ""]
Sym(s) == [num |-> 0, sym |-> s]
NoAttr == [num |-> -1, sym |-> "NoAttr"]

\* LayerInterface.g, the class attribute every interface falls back to
DefaultG == 1000000

\* thickness of the substrate pseudo-layer: 0.01 cm in units of 1e-7 cm
SubstrateThickness == 100000

\* temperature of a Domain built without argument, and of the examples
DefaultTemperature == 300

\* the temperature of example_temperature_dependence's cold run
ColdTemperature == 80

\* the material classes: what __init__(temperature) and
\* set_temperature(temperature) store, at 300 K and at 80 K
MaterialProps(name, T) ==
    CASE name = "Sapphire" ->
           IF T = ColdTemperature
           THEN [cp |-> 97, kxx |-> 6702, kyy |-> 6702, kxy |-> 0, kzz |-> 6702,
                 density |-> 3970]
           ELSE [cp |-> 3074, kxx |-> 332, kyy |-> 332, kxy |-> 0, kzz |-> 332,
                 density |-> 3970]
      [] name = "Au" ->
           IF T = ColdTemperature
           THEN [cp |-> 1978, kxx |-> 684, kyy |-> 684, kxy |-> 0, kzz |-> 684,
                 density |-> 19300]
           ELSE [cp |-> 2494, kxx |-> 660, kyy |-> 660, kxy |-> 0, kzz |-> 660,
                 density |-> 19300]
      [] name = "Alumina" ->
           [cp |-> 2, kxx |-> 10, kyy |-> 10, kxy |-> 0, kzz |-> 10, density |-> 3150]
      [] OTHER ->
           [cp |-> 1000, kxx |-> 500, kyy |-> 500, kxy |-> 0, kzz |-> 500, density |-> 1000]

\* a Layer that copies nothing from its material: the class attributes of
\* Layer show through
LayerClassDefaults(thickness, T, material) ==
    [kind |-> "Layer", material |-> material, m1 |-> "", m2 |-> "",
     thickness |-> thickness,
     cp |-> Num(2000), density |-> Num(110000),
     kxx |-> Num(250), kyy |-> Num(250), kxy |-> Num(0), kzz |-> Num(250),
     g |-> NoAttr]

\* Layer.__init__
Layer(thickness, T, material) ==
    [kind |-> "Layer", material |-> material, m1 |-> "", m2 |-> "",
     thickness |-> thickness,
     cp |-> Num(MaterialProps(material, T).cp),
     density |-> Num(MaterialProps(material, T).density),
     kxx |-> Num(MaterialProps(material, T).kxx),
     kyy |-> Num(MaterialProps(material, T).kyy),
     kxy |-> Num(MaterialProps(material, T).kxy),
     kzz |-> Num(MaterialProps(material, T).kzz),
     g |-> NoAttr]

\* LayerInterface.__init__: g is not assigned, the class attribute shows through
LayerInterface(material_1, material_2) ==
    [kind |-> "LayerInterface", material |-> "", m1 |-> material_1, m2 |-> material_2,
     thickness |-> NoAttr,
     cp |-> NoAttr, density |-> NoAttr, kxx |-> NoAttr, kyy |-> NoAttr,
     kxy |-> NoAttr, kzz |-> NoAttr,
     g |-> NoAttr]

----------------------------------------------------------------------------
(* Inputs *)

None == "None"
SubstrateArgs == {"Sapphire", None}
LayerArgs == {"Au", None}
TopLayerArgs == {"Alumina", None}
Thicknesses == {Num(60)}
OverrideValues == {Num(7), Sym("kz")}
Keys == {"cp", "density", "kxx", "kyy", "kxy", "kzz", "thickness"}
HandledKeys == {"cp", "density", "kxx", "kyy", "kxy", "kzz"}
Slots == -1 .. (MaxLayers + 1)

\* the keyword dictionaries of a set_layer_param call
Parameters ==
    UNION { [K -> OverrideValues] : K \in {S \in SUBSET Keys : Cardinality(S) <= MaxKeys} }

\* materialname of what add_layer holds after "if material == None"
MaterialName(material) == IF material = None THEN "default" ELSE material

----------------------------------------------------------------------------
(* Python list indexing: the 1-based position of list[i], 0 when out of range *)

PyIndex(len, i) ==
    IF i >= 0 /\ i < len THEN i + 1
    ELSE IF i < 0 /\ i >= -len THEN len + i + 1
    ELSE 0

NoCall == [op |-> "none", index |-> 0, parameter |-> <<>>, value |-> NoAttr,
           raised |-> "", printed |-> FALSE, hp |-> <<>>, top |-> <<>>]

Call(op, index, parameter, value, raised, printed) ==
    [op |-> op, index |-> index, parameter |-> parameter, value |-> value,
     raised |-> raised, printed |-> printed, hp |-> heat_path, top |-> top_heat_path]

\* a matrix attribute: none is Python's None (or an attribute never assigned),
\* factors the 2x2 matrices of an ordered product, leftmost first
NoMatrix == [none |-> TRUE, factors |-> <<>>]

\* an optimizer parameter object (lmfit.Parameters): none until minimize
\* builds one; id tells the objects apart, two references with one id are
\* references to one object
NoParameters == [none |-> TRUE, items |-> <<>>, id |-> 0]

\* the names given to Fitting_parameters.add
ParamNames == {"kz", "thick"}

\* the model before FourierModelFDTR(...) has returned an object to the caller;
\* attrs are the attributes setattr(self, name, value) creates, -1 when absent
NoModel ==
    [built |-> FALSE, beamoffset |-> 0, backend |-> "", has_fp |-> FALSE,
     matrix |-> NoMatrix, topmatrix |-> NoMatrix,
     lfunction |-> [none |-> TRUE, args |-> <<>>, factors |-> <<>>],
     lmfit_params |-> NoParameters, omega |-> 0,
     attrs |-> [n \in ParamNames |-> -1]]

\* the locals of a minimize call; all are dropped when the call ends
NoFit == [pc |-> "idle", data |-> <<>>, range |-> <<0, 0>>, freq |-> <<>>,
          params |-> <<>>, k |-> 0, phase |-> <<>>, residual |-> <<>>, nevals |-> 0]

NoModelCall ==
    [op |-> "none", raised |-> "", frequency |-> 0,
     response |-> [re |-> [cls |-> "fin", v |-> 0], im |-> [cls |-> "fin", v |-> 0]],
     raw |-> [cls |-> "fin", v |-> 0], phase |-> [cls |-> "fin", v |-> 0],
     unset_g |-> FALSE, names |-> <<>>, keys |-> <<>>, nevals |-> 0,
     name |-> "", returned |-> NoAttr, pre |-> <<>>, post |-> <<>>,
     beamoffset |-> 0, ntop |-> 0, fresh |-> FALSE,
     backend |-> "", region |-> [dim |-> 0, denom |-> 0],
     steps |-> 0, frequencies |-> <<>>, derivative |-> <<>>,
     pairs |-> <<>>, runs |-> 0, predicted |-> <<>>, residual |-> <<>>]

\* Domain(): "self.heat_path = []; self.top_heat_path = []; self.temperature
\* = temperature", no matrix yet, and substrate_defined read from the class
NoDomain ==
    [heat_path |-> <<>>, top_heat_path |-> <<>>, substrate_defined |-> FALSE,
     temperature |-> DefaultTemperature, matrix |-> NoMatrix]

DomainInit ==
    /\ heat_path = <<>>
    /\ top_heat_path = <<>>
    /\ substrate_defined = FALSE
    /\ temperature = DefaultTemperature
    /\ domain_b = NoDomain
    /\ domain_matrix = NoMatrix
    /\ last = NoCall
    /\ nsets = [param |-> 0, condu |-> 0]

\* threads that may run get_phase on the one model at the same time
Threads == {1, 2}

\* no get_phase call is running in any thread
NoCalls == [t \in Threads |-> [pc |-> "idle", frequency |-> 0, reads |-> <<>>]]

ModelInit ==
    /\ fitting_params = <<>>
    /\ model = NoModel
    /\ fit = NoFit
    /\ mlast = NoModelCall
    /\ model_b = NoModel
    /\ calls = NoCalls

Init == DomainInit /\ ModelInit

----------------------------------------------------------------------------
(* Domain.add_substrate *)

\* an assignment to the class attribute: every Domain without an attribute
\* of its own reads the new value
StoreOnClass(self_defined, other_defined) == <<TRUE, TRUE>>

\* "self.substrate_defined = True": the assignment creates the attribute on
\* this instance; the class attribute of line 7, which the other Domain
\* reads until it has made its own assignment, stays False.  The pair is
\* what this Domain and the other one read afterwards.
StoreSubstrateDefined(self_defined, other_defined) == <<TRUE, other_defined>>

add_substrate(material) ==
    /\ UNCHANGED <<domain_matrix, temperature, modvars>>
    /\ IF ~substrate_defined
       THEN IF material = None
            THEN \* sapphire(T) is an instance; material(T) is not callable
                 /\ last' = Call("add_substrate", 0, <<>>, NoAttr, "TypeError", FALSE)
                 /\ UNCHANGED <<heat_path, top_heat_path, substrate_defined, nsets, domain_b>>
            ELSE /\ heat_path' = Append(heat_path, Layer(Num(SubstrateThickness), temperature, material))
                 /\ LET stored == StoreSubstrateDefined(substrate_defined,
                                                        domain_b.substrate_defined)
                    IN /\ substrate_defined' = stored[1]
                       /\ domain_b' = [domain_b EXCEPT !.substrate_defined = stored[2]]
                 /\ last' = Call("add_substrate", 0, <<>>, NoAttr, "", FALSE)
                 /\ UNCHANGED <<top_heat_path, nsets>>
       ELSE \* print('Substrate already defined!')
            /\ last' = Call("add_substrate", 0, <<>>, NoAttr, "", TRUE)
            /\ UNCHANGED <<heat_path, top_heat_path, substrate_defined, nsets, domain_b>>

----------------------------------------------------------------------------
(* Domain.add_layer and Domain.add_toplayer.  Both read                    *)
(* self.heat_path[-1].material, append the interface, then build the layer *)
(* with material(self.temperature).                                        *)

\* what evaluating self.heat_path[-1].material raises, "" when it succeeds
LastMaterialError ==
    IF heat_path = <<>> THEN "IndexError"
    ELSE IF heat_path[Len(heat_path)].kind # "Layer" THEN "AttributeError"
    ELSE ""

add_layer(thickness, material) ==
    /\ Len(heat_path) < 2 * MaxLayers + 1
    /\ UNCHANGED <<domain_matrix, temperature, domain_b, modvars>>
    /\ IF LastMaterialError # ""
       THEN /\ last' = Call("add_layer", 0, <<>>, NoAttr, LastMaterialError, FALSE)
            /\ UNCHANGED <<heat_path, top_heat_path, substrate_defined, nsets>>
       ELSE LET interface == LayerInterface(heat_path[Len(heat_path)].material,
                                            MaterialName(material))
            IN IF material = None
               THEN \* default_material(T) is an instance: the interface is
                    \* already appended when material(T) raises
                    /\ heat_path' = Append(heat_path, interface)
                    /\ last' = Call("add_layer", 0, <<>>, NoAttr, "TypeError", FALSE)
                    /\ UNCHANGED <<top_heat_path, substrate_defined, nsets>>
               ELSE /\ heat_path' = Append(Append(heat_path, interface),
                                           Layer(thickness, temperature, material))
                    /\ last' = Call("add_layer", 0, <<>>, NoAttr, "", FALSE)
                    /\ UNCHANGED <<top_heat_path, substrate_defined, nsets>>

add_toplayer(thickness, material) ==
    /\ Len(top_heat_path) < 2 * MaxTop
    /\ UNCHANGED <<domain_matrix, temperature, domain_b, modvars>>
    /\ IF LastMaterialError # ""
       THEN /\ last' = Call("add_toplayer", 0, <<>>, NoAttr, LastMaterialError, FALSE)
            /\ UNCHANGED <<heat_path, top_heat_path, substrate_defined, nsets>>
       ELSE LET interface == LayerInterface(heat_path[Len(heat_path)].material,
                                            MaterialName(material))
            IN IF material = None
               THEN /\ top_heat_path' = Append(top_heat_path, interface)
                    /\ last' = Call("add_toplayer", 0, <<>>, NoAttr, "TypeError", FALSE)
                    /\ UNCHANGED <<heat_path, substrate_defined, nsets>>
               ELSE /\ top_heat_path' = Append(Append(top_heat_path, interface),
                                               Layer(thickness, temperature, material))
                    /\ last' = Call("add_toplayer", 0, <<>>, NoAttr, "", FALSE)
                    /\ UNCHANGED <<heat_path, substrate_defined, nsets>>

----------------------------------------------------------------------------
(* Domain.set_layer_param(index, **parameter): the second definition in    *)
(* the class body, which replaces the positional one.                      *)

\* one "if key in parameter: self.heat_path[index*2].field = parameter[key]"
Assign(obj, parameter, key, field) ==
    IF key \in DOMAIN parameter THEN [obj EXCEPT ![field] = parameter[key]] ELSE obj

\* the six statements of the method, in source order, on the addressed object
ApplyLayerParam(obj, parameter) ==
    LET o1 == Assign(obj, parameter, "cp", "cp")
        o2 == Assign(o1, parameter, "density", "density")
        o3 == Assign(o2, parameter, "kxx", "kxx")
        o4 == Assign(o3, parameter, "kyy", "kyy")
        o5 == Assign(o4, parameter, "kxy", "kyy")
        o6 == Assign(o5, parameter, "kzz", "kzz")
    IN o6

\* the flat position set_layer_param addresses
LayerFlatIndex(index) == index * 2

set_layer_param(index, parameter) ==
    /\ nsets.param < MaxParamCalls
    /\ UNCHANGED <<domain_matrix, temperature, domain_b, modvars>>
    /\ nsets' = [nsets EXCEPT !.param = @ + 1]
    /\ LET pos == PyIndex(Len(heat_path), LayerFlatIndex(index))
       IN IF (DOMAIN parameter) \cap HandledKeys = {}
          THEN \* no statement touches heat_path: thickness is not handled
               /\ last' = Call("set_layer_param", index, parameter, NoAttr, "", FALSE)
               /\ UNCHANGED <<heat_path, top_heat_path, substrate_defined>>
          ELSE IF pos = 0
          THEN /\ last' = Call("set_layer_param", index, parameter, NoAttr, "IndexError", FALSE)
               /\ UNCHANGED <<heat_path, top_heat_path, substrate_defined>>
          ELSE /\ heat_path' = [heat_path EXCEPT ![pos] = ApplyLayerParam(@, parameter)]
               /\ last' = Call("set_layer_param", index, parameter, NoAttr, "", FALSE)
               /\ UNCHANGED <<top_heat_path, substrate_defined>>

----------------------------------------------------------------------------
(* Domain.set_interface_condu(index, g) *)

\* a slot mapping that addresses the layer instead of the interface before it
InterfaceFlatIndexOffByOne(index) == index * 2

\* the flat position set_interface_condu addresses
InterfaceFlatIndex(index) == (index * 2) - 1

set_interface_condu(index, g) ==
    /\ nsets.condu < MaxConduCalls
    /\ UNCHANGED <<domain_matrix, temperature, domain_b, modvars>>
    /\ nsets' = [nsets EXCEPT !.condu = @ + 1]
    /\ LET pos == PyIndex(Len(heat_path), InterfaceFlatIndex(index))
       IN IF pos = 0
          THEN /\ last' = Call("set_interface_condu", index, <<>>, g, "IndexError", FALSE)
               /\ UNCHANGED <<heat_path, top_heat_path, substrate_defined>>
          ELSE /\ heat_path' = [heat_path EXCEPT ![pos].g = g]
               /\ last' = Call("set_interface_condu", index, <<>>, g, "", FALSE)
               /\ UNCHANGED <<top_heat_path, substrate_defined>>

----------------------------------------------------------------------------
(* Domain.set_temperature(temperature): every element of both paths gets  *)
(* set_temperature(temperature) and then update().                         *)

Temperatures == {DefaultTemperature, ColdTemperature}

\* the fields Layer.update copies from the layer's material
MaterialFields == {"cp", "density", "kxx", "kyy", "kxy", "kzz"}

\* Layer.set_temperature re-evaluates the material, Layer.update copies its
\* properties into the layer; for a LayerInterface both do nothing
Retemper(obj, T) ==
    IF obj.kind = "Layer"
    THEN [f \in DOMAIN obj |->
             IF f \in MaterialFields THEN Num(MaterialProps(obj.material, T)[f])
             ELSE obj[f]]
    ELSE obj

set_temperature(T) ==
    /\ UNCHANGED <<domain_matrix, substrate_defined, nsets, domain_b, modvars>>
    /\ temperature' = T
    /\ heat_path' = [i \in 1 .. Len(heat_path) |-> Retemper(heat_path[i], T)]
    /\ top_heat_path' = [i \in 1 .. Len(top_heat_path) |-> Retemper(top_heat_path[i], T)]
    /\ last' = Call("set_temperature", 0, <<>>, Num(T), "", FALSE)

----------------------------------------------------------------------------

Next ==
    \/ \E material \in SubstrateArgs : add_substrate(material)
    \/ \E thickness \in Thicknesses, material \in LayerArgs : add_layer(thickness, material)
    \/ \E thickness \in Thicknesses, material \in TopLayerArgs : add_toplayer(thickness, material)
    \/ \E index \in Slots, parameter \in Parameters : set_layer_param(index, parameter)
    \/ \E index \in Slots, g \in OverrideValues : set_interface_condu(index, g)

Spec == Init /\ [][Next]_vars

----------------------------------------------------------------------------
(* Transfer matrices.  A 2x2 sympy matrix is carried as the ordered list   *)
(* of the factors it is the product of; each factor is named by the        *)
(* attribute values getFourier_Matrix reads.                               *)

\* Layer.getFourier_Matrix / LayerInterface.getFourier_Matrix
getFourier_Matrix(obj) ==
    IF obj.kind = "Layer"
    THEN [kind |-> "Layer", kxx |-> obj.kxx, kzz |-> obj.kzz, kxy |-> obj.kxy,
          cp |-> obj.cp, thickness |-> obj.thickness, g |-> NoAttr]
    ELSE [kind |-> "LayerInterface", kxx |-> NoAttr, kzz |-> NoAttr, kxy |-> NoAttr,
          cp |-> NoAttr, thickness |-> NoAttr,
          g |-> IF obj.g = NoAttr THEN Num(DefaultG) ELSE obj.g]

\* a loop that multiplies each new factor on the left: the product comes out
\* in reverse list order
TransferProductReversed(path) ==
    [i \in 1 .. Len(path) |-> getFourier_Matrix(path[Len(path) + 1 - i])]

\* the loop of calc_transfer_matrix: identity times each element's matrix,
\* multiplied on the right in list order
TransferProduct(path) == [i \in 1 .. Len(path) |-> getFourier_Matrix(path[i])]

\* Domain.calc_transfer_matrix(), called by a script or by the model's update
calc_transfer_matrix ==
    /\ domain_matrix' = [none |-> FALSE, factors |-> TransferProduct(heat_path)]
    /\ last' = Call("calc_transfer_matrix", 0, <<>>, NoAttr, "", FALSE)
    /\ UNCHANGED <<heat_path, top_heat_path, substrate_defined, temperature, nsets, domain_b, modvars>>

\* names of the sympy symbols an expression built from these factors contains
FreeSymbols(factors) ==
    { factors[i][f].sym : i \in 1 .. Len(factors),
                          f \in {"kxx", "kzz", "kxy", "cp", "thickness", "g"} }
        \ {"", "NoAttr"}

----------------------------------------------------------------------------
(* Fitting_parameters *)

\* value, min and max as the examples add them (kz in 1e-3 W/cmK, thick in nm)
ParamDefaults(name) ==
    IF name = "kz" THEN [name |-> name, value |-> 400, min |-> 100, max |-> 700]
    ELSE [name |-> name, value |-> 60, min |-> 40, max |-> 80]

\* [param.name for param in self.fitting_params.parameters]
FittingNames(params) == [i \in 1 .. Len(params) |-> params[i].name]

HasDuplicates(names) ==
    \E i, j \in 1 .. Len(names) : i # j /\ names[i] = names[j]

----------------------------------------------------------------------------
(* FourierModelFDTR.__init__ and update *)

Backends == {"numpy", "mpmath"}
BeamOffsets == {0, 1}

\* some interface of heat_path never had its g assigned
UnsetConductance ==
    \E i \in 1 .. Len(heat_path) :
        heat_path[i].kind = "LayerInterface" /\ heat_path[i].g = NoAttr

\* number of layers add_toplayer has put on the top path
TopLayers ==
    Cardinality({i \in 1 .. Len(top_heat_path) : top_heat_path[i].kind = "Layer"})

\* the argument names lambdify compiles after eps(, eta), omega
CompiledArgs(has_fp) == IF has_fp THEN FittingNames(fitting_params) ELSE <<>>

\* FourierModelFDTR(domain, rpump, rprobe, beamoffset, backend, fitting_params=...)
\* on a model whose matrix and topmatrix start as None
Construct(beamoffset, backend, has_fp) ==
    /\ ~model.built
    /\ fit.pc = "idle"
    /\ UNCHANGED <<domvars, fitting_params, fit, peers>>
    /\ LET matrix == [none |-> FALSE, factors |-> TransferProduct(heat_path)]
           call == [NoModelCall EXCEPT !.op = "__init__", !.unset_g = UnsetConductance,
                                       !.beamoffset = beamoffset,
                                       !.ntop = TopLayers]
       IN IF top_heat_path # <<>>
          THEN \* calc_top_transfer_matrix stores into domain.matrix; reading
               \* self.domain.topmatrix then raises
               /\ domain_matrix' = [none |-> FALSE, factors |-> TransferProduct(top_heat_path)]
               /\ mlast' = [call EXCEPT !.raised = "AttributeError"]
               /\ UNCHANGED model
          ELSE IF HasDuplicates(CompiledArgs(has_fp))
          THEN \* lambdify generates a def with a repeated argument name
               /\ domain_matrix' = matrix
               /\ mlast' = [call EXCEPT !.raised = "SyntaxError"]
               /\ UNCHANGED model
          ELSE /\ domain_matrix' = matrix
               /\ model' = [built |-> TRUE, beamoffset |-> beamoffset, backend |-> backend,
                            has_fp |-> has_fp, matrix |-> matrix, topmatrix |-> NoMatrix,
                            lfunction |-> [none |-> FALSE, args |-> CompiledArgs(has_fp),
                                           factors |-> matrix.factors],
                            lmfit_params |-> NoParameters, omega |-> 0,
                            attrs |-> NoModel.attrs]
               /\ mlast' = [call EXCEPT !.fresh = TRUE]

\* the model's cached matrix and compiled integrand are those of the domain's
\* heat path as it is now
CacheFresh(m) ==
    /\ m.matrix = [none |-> FALSE, factors |-> TransferProduct(heat_path)]
    /\ m.lfunction.factors = TransferProduct(heat_path)

\* model.update() called on a constructed model: "if self.matrix == None"
\* is false for the matrix the constructor stored, so the cached matrix is
\* kept and the integrand is derived from it again
update ==
    /\ model.built
    /\ fit.pc = "idle"
    /\ UNCHANGED <<domvars, fitting_params, fit, peers>>
    /\ LET recalc == model.matrix.none
           matrix == IF recalc
                     THEN [none |-> FALSE, factors |-> TransferProduct(heat_path)]
                     ELSE model.matrix
           call == [NoModelCall EXCEPT !.op = "update", !.unset_g = UnsetConductance,
                                       !.beamoffset = model.beamoffset,
                                       !.ntop = TopLayers]
       IN IF top_heat_path # <<>> /\ model.topmatrix.none
          THEN \* calc_top_transfer_matrix stores into domain.matrix; reading
               \* self.domain.topmatrix then raises
               /\ domain_matrix' = [none |-> FALSE, factors |-> TransferProduct(top_heat_path)]
               /\ model' = [model EXCEPT !.matrix = matrix]
               /\ mlast' = [call EXCEPT !.raised = "AttributeError"]
          ELSE /\ domain_matrix' = IF recalc THEN matrix ELSE domain_matrix
               /\ IF HasDuplicates(CompiledArgs(model.has_fp))
                  THEN /\ model' = [model EXCEPT !.matrix = matrix, !.topmatrix = NoMatrix]
                       /\ mlast' = [call EXCEPT !.raised = "SyntaxError"]
                  ELSE /\ model' = [model EXCEPT
                                      !.matrix = matrix, !.topmatrix = NoMatrix,
                                      !.lfunction = [none |-> FALSE,
                                                     args |-> CompiledArgs(model.has_fp),
                                                     factors |-> matrix.factors]]
                       /\ mlast' = [call EXCEPT !.fresh = CacheFresh(model')]

----------------------------------------------------------------------------
(* FourierModelFDTR.get_phase.  The quadrature itself is not computed: its *)
(* complex result is an input, drawn from Responses.  Floats are           *)
(* [cls, v] with cls fin / inf / ninf / nan; angles are whole degrees.      *)

Fin(n) == [cls |-> "fin", v |-> n]
Inf == [cls |-> "inf", v |-> 0]
NegInf == [cls |-> "ninf", v |-> 0]
NaN == [cls |-> "nan", v |-> 0]

Abs(n) == IF n < 0 THEN -n ELSE n
Sign(x) == IF x.cls = "inf" THEN 1
           ELSE IF x.cls = "ninf" THEN -1
           ELSE IF x.v < 0 THEN -1 ELSE 1

\* 180*atan(n/d)/pi for 0 <= n, 0 < d, to the nearest degree
AtanDeg(n, d) ==
    CASE n = 0 -> 0
      [] n = d -> 45
      [] 3 * n = d -> 18
      [] 2 * n = d -> 27
      [] 3 * n = 2 * d -> 34
      [] 2 * n = 3 * d -> 56
      [] n = 2 * d -> 63
      [] n = 3 * d -> 72
      [] OTHER -> IF n < d THEN 10 ELSE 80

\* 180*arctan(Im/Re)/pi as Python floats (mpf in the mpmath backend) give it:
\* raised names the exception of the division, raw the angle otherwise
RawAngle(response) ==
    LET re == response.re
        im == response.im
    IN IF re.cls = "fin" /\ re.v = 0
       THEN \* float division by zero raises whatever the numerator
            [raised |-> "ZeroDivisionError", raw |-> NaN]
       ELSE IF re.cls = "nan" \/ im.cls = "nan" \/ (re.cls # "fin" /\ im.cls # "fin")
       THEN [raised |-> "", raw |-> NaN]
       ELSE IF re.cls # "fin"
       THEN [raised |-> "", raw |-> Fin(0)]
       ELSE IF im.cls # "fin"
       THEN [raised |-> "", raw |-> Fin(Sign(im) * Sign(re) * 90)]
       ELSE [raised |-> "", raw |-> Fin(Sign(im) * Sign(re) * AtanDeg(Abs(im.v), Abs(re.v)))]

\* "if calc_phase < 0: return calc_phase else: return calc_phase-180"
FoldPhase(calc_phase) ==
    IF calc_phase.cls = "nan" THEN NaN
    ELSE IF calc_phase.v < 0 THEN calc_phase
    ELSE Fin(calc_phase.v - 180)

\* beam radii of the examples, and beam offsets, in micrometres
Rpump == 4
Rprobe == 4

\* the region get_phase integrates over: dim 1 is the interval [0, U], dim 2
\* the square [-U, U] x [-U, U], with U = 20 / sqrt(denom)
IntegrationRegion(backend, beamoffset) ==
    IF beamoffset = 0
    THEN [dim |-> 1, denom |-> Rpump * Rpump + Rprobe * Rprobe]
    ELSE IF backend = "numpy"
    THEN [dim |-> 2, denom |-> Rpump * Rpump + Rprobe * Rprobe]
    ELSE [dim |-> 2, denom |-> Rpump * Rpump + (Rprobe + beamoffset) * (Rprobe + beamoffset)]

\* number of parameter values tointegrate* passes after omega
SuppliedArgs(m) == IF m.lmfit_params.none THEN 0 ELSE Len(m.lmfit_params.items)

\* outcome of self.get_phase(frequency) when the quadrature yields response
PhaseOutcome(m, response) ==
    IF m.backend \notin Backends
    THEN \* neither branch assigns calc_phase before "if calc_phase < 0"
         [raised |-> "UnboundLocalError", raw |-> NaN, phase |-> NaN]
    ELSE IF SuppliedArgs(m) # Len(m.lfunction.args)
    THEN [raised |-> "TypeError", raw |-> NaN, phase |-> NaN]
    ELSE IF ~(FreeSymbols(m.lfunction.factors) \subseteq
                 {m.lfunction.args[i] : i \in 1 .. Len(m.lfunction.args)})
    THEN [raised |-> "NameError", raw |-> NaN, phase |-> NaN]
    ELSE LET a == RawAngle(response)
         IN [raised |-> a.raised, raw |-> a.raw,
             phase |-> IF a.raised = "" THEN FoldPhase(a.raw) ELSE NaN]

\* a caller's model.get_phase(frequency)
get_phase(frequency, response) ==
    /\ model.built
    /\ fit.pc = "idle"
    /\ UNCHANGED <<domvars, domain_matrix, fitting_params, fit, peers>>
    /\ model' = [model EXCEPT !.omega = frequency]
    /\ LET out == PhaseOutcome(model, response)
       IN mlast' = [NoModelCall EXCEPT !.op = "get_phase", !.raised = out.raised,
                                       !.frequency = frequency, !.response = response,
                                       !.raw = out.raw, !.phase = out.phase,
                                       !.unset_g = UnsetConductance,
                                       !.beamoffset = model.beamoffset,
                                       !.backend = model.backend,
                                       !.region = IntegrationRegion(model.backend,
                                                                    model.beamoffset)]

Frequencies == {1, 2, 3}

FloatsRe == {Fin(-1), Fin(0), Fin(2), NaN}
FloatsIm == {Fin(-2), Fin(0), Fin(1), NaN}
Responses == [re : FloatsRe, im : FloatsIm]

\* quadrature results met during a fit
FitResponses == { [re |-> Fin(-1), im |-> Fin(1)], [re |-> Fin(2), im |-> Fin(1)],
                  [re |-> Fin(0), im |-> Fin(1)] }

\* building a domain
DomainStep ==
    \/ \E material \in SubstrateArgs : add_substrate(material)
    \/ \E thickness \in Thicknesses, material \in LayerArgs : add_layer(thickness, material)
    \/ \E thickness \in Thicknesses, material \in TopLayerArgs : add_toplayer(thickness, material)
    \/ \E index \in Slots, g \in OverrideValues : set_interface_condu(index, g)

\* a script that builds a domain and sets interface conductances, leaving the
\* layer properties at their material values
SpecSlots == Init /\ [][DomainStep]_vars

\* the script goes on with the other Domain object
SwitchDomain ==
    /\ heat_path' = domain_b.heat_path
    /\ top_heat_path' = domain_b.top_heat_path
    /\ substrate_defined' = domain_b.substrate_defined
    /\ temperature' = domain_b.temperature
    /\ domain_matrix' = domain_b.matrix
    /\ domain_b' = [heat_path |-> heat_path, top_heat_path |-> top_heat_path,
                    substrate_defined |-> substrate_defined,
                    temperature |-> temperature, matrix |-> domain_matrix]
    /\ UNCHANGED <<last, nsets, modvars>>

\* two Domain objects built side by side, each at a temperature of its own
NextDomains ==
    \/ \E material \in SubstrateArgs : add_substrate(material)
    \/ \E thickness \in Thicknesses, material \in LayerArgs : add_layer(thickness, material)
    \/ \E T \in Temperatures : set_temperature(T)
    \/ SwitchDomain

SpecDomains == Init /\ [][NextDomains]_vars

\* set_layer_param calls with one keyword
SingleParameters == {p \in Parameters : Cardinality(DOMAIN p) = 1}

\* set_layer_param calls that name cp, kzz or thickness
TempParameters == {p \in SingleParameters : DOMAIN p \subseteq {"cp", "kzz", "thickness"}}

\* a script that builds a domain, overrides layer fields and interface
\* conductances and changes the temperature
NextTemp ==
    \/ \E material \in SubstrateArgs : add_substrate(material)
    \/ \E thickness \in Thicknesses, material \in LayerArgs : add_layer(thickness, material)
    \/ \E index \in 0 .. MaxLayers, parameter \in TempParameters :
          set_layer_param(index, parameter)
    \/ \E index \in 1 .. MaxLayers, g \in OverrideValues : set_interface_condu(index, g)
    \/ \E T \in Temperatures : set_temperature(T)

SpecTemp == Init /\ [][NextTemp]_vars

\* set_layer_param calls that name kzz or thickness
MatrixParameters == {p \in SingleParameters : DOMAIN p \subseteq {"kzz", "thickness"}}

\* a script that builds a domain, overrides layer fields and interface
\* conductances and computes the composite matrix at any point
NextMatrix ==
    \/ \E material \in SubstrateArgs : add_substrate(material)
    \/ \E thickness \in Thicknesses, material \in LayerArgs : add_layer(thickness, material)
    \/ \E index \in 0 .. MaxLayers, parameter \in MatrixParameters :
          set_layer_param(index, parameter)
    \/ \E index \in 1 .. MaxLayers, g \in OverrideValues : set_interface_condu(index, g)
    \/ calc_transfer_matrix

SpecMatrix == Init /\ [][NextMatrix]_vars

\* a script that builds a domain, constructs a model on it and evaluates phases
NextModel ==
    \/ (~model.built /\ DomainStep)
    \/ \E beamoffset \in BeamOffsets, backend \in Backends :
          Construct(beamoffset, backend, FALSE)
    \/ \E frequency \in Frequencies, response \in Responses : get_phase(frequency, response)

SpecModel == Init /\ [][NextModel]_vars

\* literal values a script gives to a layer or an interface
LiteralValues == {v \in OverrideValues : v.sym = ""}
LiteralParameters == { [key \in {k} |-> v] : k \in {"kzz", "thickness"}, v \in LiteralValues }

\* gold on sapphire with the interface conductance set, all values literal
LiteralHeatPath ==
    << Layer(Num(SubstrateThickness), DefaultTemperature, "Sapphire"),
       [LayerInterface("Sapphire", "Au") EXCEPT !.g = Num(5000)],
       Layer(Num(60), DefaultTemperature, "Au") >>

InitUpdate ==
    /\ heat_path = LiteralHeatPath
    /\ top_heat_path = <<>>
    /\ substrate_defined = TRUE
    /\ temperature = DefaultTemperature
    /\ domain_b = NoDomain
    /\ domain_matrix = NoMatrix
    /\ last = NoCall
    /\ nsets = [param |-> 0, condu |-> 0]
    /\ ModelInit

\* a script that constructs a model, goes on changing the domain with literal
\* values, calls model.update() and evaluates phases
NextUpdate ==
    \/ \E thickness \in Thicknesses, material \in LayerArgs : add_layer(thickness, material)
    \/ \E index \in 1 .. MaxLayers, parameter \in LiteralParameters :
          set_layer_param(index, parameter)
    \/ \E index \in 1 .. MaxLayers, g \in LiteralValues : set_interface_condu(index, g)
    \/ \E beamoffset \in BeamOffsets : Construct(beamoffset, "numpy", FALSE)
    \/ update
    \/ /\ mlast.op = "update"
       /\ \E frequency \in Frequencies, response \in FitResponses :
             get_phase(frequency, response)

SpecUpdate == InitUpdate /\ [][NextUpdate]_vars

----------------------------------------------------------------------------
(* Fitting_parameters.add and FourierModelFDTR.minimize.  lmfit is a       *)
(* library: of lmfit.minimize only this is kept, that it calls residuals   *)
(* one or more times with trial values and then returns.                   *)

MaxParams == 3      \* Fitting_parameters.add calls per run
MaxRows == 3        \* rows of experimental data
MaxEvals == 2       \* residual evaluations lmfit makes in one minimize

\* Fitting_parameters.add(name, value, min, max)
FitAdd(name) ==
    /\ fit.pc = "idle"
    /\ Len(fitting_params) < MaxParams
    /\ fitting_params' = Append(fitting_params, ParamDefaults(name))
    /\ UNCHANGED <<domvars, domain_matrix, model, fit, mlast, peers>>

\* a lookup loop that falls off its end and returns None for an unknown name
GetParameterNoRaise(parameters, name) ==
    IF \E i \in 1 .. Len(parameters) : parameters[i].name = name
    THEN [raised |-> "", value |-> Sym(name)]
    ELSE [raised |-> "", value |-> NoAttr]

\* the loop of get_parameter: the sympy_symbol of the first entry with that
\* name, which is symbols(name); ValueError when the loop finds none
GetParameter(parameters, name) ==
    LET hits == {i \in 1 .. Len(parameters) : parameters[i].name = name}
    IN IF hits # {}
       THEN LET first == CHOOSE i \in hits : \A j \in hits : i <= j
            IN [raised |-> "", value |-> Sym(parameters[first].name)]
       ELSE [raised |-> "ValueError: Parameter not found", value |-> NoAttr]

\* names a caller may ask for: the added ones and one that is never added
LookupNames == ParamNames \cup {"g1"}

\* Fitting_parameters.get_parameter(name)
get_parameter(name) ==
    /\ fit.pc = "idle"
    /\ UNCHANGED <<domvars, domain_matrix, fitting_params, model, fit, peers>>
    /\ LET out == GetParameter(fitting_params, name)
       IN mlast' = [NoModelCall EXCEPT !.op = "get_parameter", !.name = name,
                                       !.raised = out.raised, !.returned = out.value,
                                       !.pre = fitting_params, !.post = fitting_params']

\* lmfit.Parameters.add: Parameters is an ordered dict, a name that is
\* already a key keeps its place and takes the new value
ParametersAdd(items, param) ==
    IF \E i \in 1 .. Len(items) : items[i].name = param.name
    THEN [i \in 1 .. Len(items) |->
             IF items[i].name = param.name
             THEN [name |-> param.name, value |-> param.value]
             ELSE items[i]]
    ELSE Append(items, [name |-> param.name, value |-> param.value])

\* "for param in self.fitting_params.parameters: parameter.add(...)"
RECURSIVE BuildParameters(_, _)
BuildParameters(params, n) ==
    IF n = 0 THEN <<>>
    ELSE ParametersAdd(BuildParameters(params, n - 1), params[n])

\* list(self.lmfit_params.valuesdict().keys())
LmfitKeys(items) == [i \in 1 .. Len(items) |-> items[i].name]

\* "if lmfit_keys != fitting_param_names"
OrderMismatchIgnoringRepeats(lmfit_keys, fitting_param_names) ==
    {lmfit_keys[i] : i \in 1 .. Len(lmfit_keys)}
        # {fitting_param_names[i] : i \in 1 .. Len(fitting_param_names)}

OrderMismatch(lmfit_keys, fitting_param_names) == lmfit_keys # fitting_param_names

\* Python's seq[lo:hi] as the list of 1-based positions it selects
PySlice(len, lo, hi) ==
    LET clamp(x) == IF x < 0 THEN (IF len + x < 0 THEN 0 ELSE len + x)
                    ELSE (IF x > len THEN len ELSE x)
        a == clamp(lo)
        b == clamp(hi)
    IN IF a < b THEN [i \in 1 .. (b - a) |-> a + i] ELSE <<>>

\* the default of minimize's range argument
DefaultRange == <<0, -1>>
Ranges == {DefaultRange, <<0, 2>>}

\* experimental_points: N rows [frequency, phase]
DataRows(N) == [i \in 1 .. N |-> [freq |-> i, phase |-> -(10 * i)]]

\* the optimizer parameter objects kept alive by the other model
OtherParameters ==
    IF model_b.lmfit_params.none THEN {} ELSE {model_b.lmfit_params.id}

\* an allocator that hands out the object another model already refers to
SharedParameters(live) == IF live = {} THEN 1 ELSE CHOOSE i \in live : TRUE

\* "parameter = lmfit.Parameters()": a new object, distinct from every
\* object some other reference keeps alive
NewParameters(live) == CHOOSE i \in 1 .. (Cardinality(live) + 1) : i \notin live

\* what __init__ and update gave the model: beam offset, backend, cached
\* matrices and compiled function
ModelSettings(m) == <<m.beamoffset, m.backend, m.matrix, m.topmatrix, m.lfunction>>

\* model.minimize(experimental_points, range=range) up to the call of lmfit.minimize
minimize(N, range) ==
    /\ model.built
    /\ fit.pc = "idle"
    /\ UNCHANGED <<domvars, domain_matrix, fitting_params, peers>>
    /\ IF ~model.has_fp
       THEN \* self.fitting_params is None
            /\ mlast' = [NoModelCall EXCEPT !.op = "minimize", !.raised = "AttributeError"]
            /\ UNCHANGED <<model, fit>>
       ELSE LET parameter == BuildParameters(fitting_params, Len(fitting_params))
                lmfit_keys == LmfitKeys(parameter)
                fitting_param_names == FittingNames(fitting_params)
                call == [NoModelCall EXCEPT !.op = "minimize", !.names = fitting_param_names,
                                            !.keys = lmfit_keys,
                                            !.pre = ModelSettings(model)]
                id == NewParameters(OtherParameters)
            IN /\ model' = [model EXCEPT !.lmfit_params =
                                            [none |-> FALSE, items |-> parameter, id |-> id]]
               /\ IF OrderMismatch(lmfit_keys, fitting_param_names)
                  THEN /\ mlast' = [call EXCEPT !.raised = "ValueError: Order mismatch"]
                       /\ fit' = NoFit
                  ELSE /\ mlast' = call
                       /\ fit' = [NoFit EXCEPT !.pc = "lmfit", !.data = DataRows(N),
                                               !.range = range,
                                               !.freq = PySlice(N, range[1], range[2])]

\* the trial values lmfit may hand to residuals for these parameters
TrialValues(param) == {param.value, param.max}
TrialDomain == UNION { TrialValues(ParamDefaults(n)) : n \in ParamNames }

Lookup(params, name) == CHOOSE q \in {params[i] : i \in 1 .. Len(params)} : q.name = name

\* a write loop that ends after its first turn
StoreTrialFirst(items, trial) ==
    [i \in 1 .. Len(items) |->
        IF i = 1 THEN [name |-> items[i].name, value |-> trial[items[i].name]]
        ELSE items[i]]

\* "for param in self.fitting_params.parameters:
\*      self.lmfit_params[param.name].value = params[param.name].value"
StoreTrial(items, trial) ==
    [i \in 1 .. Len(items) |-> [name |-> items[i].name, value |-> trial[items[i].name]]]

\* a loop that also assigns the trial value to param.value
ParametersOverwritten(params, trial) ==
    [i \in 1 .. Len(params) |-> [params[i] EXCEPT !.value = trial[params[i].name]]]

\* the Fitting_parameters entries after the first loop of residuals: the loop
\* reads param.name and assigns to self and to self.lmfit_params only
ParametersAfterTrial(params, trial) == params

\* residuals(params, freq, measured), its first loop: every parameter's
\* trial value is stored on the model with setattr(self, name, value), which
\* replaces self.backend or self.omega when that is the name, and in
\* self.lmfit_params
residuals_enter(trial) ==
    /\ fit.pc = "lmfit"
    /\ fit.nevals < MaxEvals
    /\ DOMAIN trial = {fitting_params[i].name : i \in 1 .. Len(fitting_params)}
    /\ \A n \in DOMAIN trial : trial[n] \in TrialValues(Lookup(fitting_params, n))
    /\ model' = [model EXCEPT
                   !.attrs = [n \in ParamNames |->
                                IF n \in DOMAIN trial THEN trial[n] ELSE @[n]],
                   !.backend = IF "backend" \in DOMAIN trial
                               THEN ToString(trial["backend"]) ELSE @,
                   !.omega = IF "omega" \in DOMAIN trial THEN trial["omega"] ELSE @,
                   !.lmfit_params.items = StoreTrial(@, trial)]
    /\ \* the write goes to the object: every reference to it sees the values
       model_b' = IF model.lmfit_params.id \in OtherParameters
                  THEN [model_b EXCEPT !.lmfit_params.items = model'.lmfit_params.items]
                  ELSE model_b
    /\ fit' = [fit EXCEPT !.pc = "loop", !.params = trial, !.k = 0, !.phase = <<>>]
    /\ fitting_params' = ParametersAfterTrial(fitting_params, trial)
    /\ UNCHANGED <<domvars, domain_matrix, mlast, calls>>

\* [self.lmfit_params[key].value for key in self.lmfit_params.valuesdict().keys()]
SuppliedValues(m) == [i \in 1 .. Len(m.lmfit_params.items) |-> m.lmfit_params.items[i].value]

\* a call that hands the values over in reverse order
BindArgsReversed(args, values) ==
    [n \in {args[i] : i \in 1 .. Len(args)} |->
        values[Len(args) + 1 - (CHOOSE i \in 1 .. Len(args) : args[i] = n)]]

\* self.lfunction(x, self.omega, *values): the i-th value is bound to the
\* i-th parameter lambdify compiled, and the expression reads each symbol
\* from the parameter of its name
BindArgs(args, values) ==
    [n \in {args[i] : i \in 1 .. Len(args)} |->
        values[CHOOSE i \in 1 .. Len(args) : args[i] = n]]

\* one turn of "for i, f in enumerate(freq): phase.append(self.get_phase(f))"
residuals_point(response) ==
    /\ fit.pc = "loop"
    /\ fit.k < Len(fit.freq)
    /\ LET f == fit.data[fit.freq[fit.k + 1]].freq
           out == PhaseOutcome(model, response)
       IN /\ model' = [model EXCEPT !.omega = f]
          /\ IF out.raised # ""
             THEN \* the exception leaves residuals, lmfit.minimize and minimize
                  /\ fit' = NoFit
                  /\ mlast' = [mlast EXCEPT !.raised = out.raised]
             ELSE /\ fit' = [fit EXCEPT !.k = @ + 1,
                                        !.phase = Append(@,
                                            [freq |-> f, predicted |-> out.phase,
                                             bound |-> BindArgs(model.lfunction.args,
                                                                SuppliedValues(model))])]
                  /\ UNCHANGED mlast
    /\ UNCHANGED <<domvars, domain_matrix, fitting_params, peers>>

\* predicted - measured on floats
FSub(x, n) == IF x.cls = "fin" THEN Fin(x.v - n) ELSE x

\* "return np.array(phase) - np.array(measured)"
residuals_return ==
    /\ fit.pc = "loop"
    /\ fit.k = Len(fit.freq)
    /\ fit' = [fit EXCEPT
                 !.pc = "lmfit",
                 !.nevals = @ + 1,
                 !.residual = [i \in 1 .. Len(fit.phase) |->
                                 [freq |-> fit.phase[i].freq,
                                  predicted |-> fit.phase[i].predicted,
                                  value |-> FSub(fit.phase[i].predicted,
                                                 fit.data[fit.freq[i]].phase)]]]
    /\ mlast' = [mlast EXCEPT !.nevals = @ + 1]
    /\ UNCHANGED <<domvars, domain_matrix, fitting_params, model, peers>>

\* lmfit.minimize returns and minimize returns its result
minimize_return ==
    /\ fit.pc = "lmfit"
    /\ fit.nevals >= 1
    /\ fit' = NoFit
    /\ UNCHANGED <<domvars, domain_matrix, fitting_params, model, mlast, peers>>

\* the domain of example_parameter_fitting
ExampleHeatPath ==
    << Layer(Num(SubstrateThickness), DefaultTemperature, "Sapphire"),
       [LayerInterface("Sapphire", "Au") EXCEPT !.g = Num(5000)],
       ApplyLayerParam(Layer(Num(60), DefaultTemperature, "Au"),
                       [key \in {"thickness", "kzz"} |->
                           IF key = "kzz" THEN Sym("kz") ELSE Sym("thick")]) >>

InitFit ==
    /\ heat_path = ExampleHeatPath
    /\ top_heat_path = <<>>
    /\ substrate_defined = TRUE
    /\ temperature = DefaultTemperature
    /\ domain_b = NoDomain
    /\ domain_matrix = NoMatrix
    /\ last = NoCall
    /\ nsets = [param |-> 1, condu |-> 1]
    /\ ModelInit

NextFit ==
    \/ \E name \in ParamNames : FitAdd(name)
    \/ \E name \in LookupNames : get_parameter(name)
    \/ \E beamoffset \in BeamOffsets, has_fp \in BOOLEAN :
          Construct(beamoffset, "numpy", has_fp)
    \/ \E frequency \in Frequencies, response \in FitResponses : get_phase(frequency, response)
    \/ \E N \in 2 .. MaxRows, range \in Ranges : minimize(N, range)
    \/ \E trial \in UNION { [K -> TrialDomain] : K \in SUBSET ParamNames } :
          residuals_enter(trial)
    \/ \E response \in FitResponses : residuals_point(response)
    \/ residuals_return
    \/ minimize_return

SpecFit == InitFit /\ [][NextFit]_vars

----------------------------------------------------------------------------
(* Two models on one Domain and one Fitting_parameters object.  The calls  *)
(* above act on model; model_b is the other instance, and the script turns *)
(* to the other instance by exchanging the two.                            *)

\* the parameter set of example_parameter_fitting
ExampleParameters == << ParamDefaults("kz"), ParamDefaults("thick") >>

\* the script goes on with the other model
SwitchModel ==
    /\ fit.pc = "idle"
    /\ model' = model_b
    /\ model_b' = model
    /\ UNCHANGED <<domvars, domain_matrix, fitting_params, fit, mlast, calls>>

InitTwo ==
    /\ heat_path = ExampleHeatPath
    /\ top_heat_path = <<>>
    /\ substrate_defined = TRUE
    /\ temperature = DefaultTemperature
    /\ domain_b = NoDomain
    /\ domain_matrix = NoMatrix
    /\ last = NoCall
    /\ nsets = [param |-> 1, condu |-> 0]
    /\ fitting_params = ExampleParameters
    /\ model = NoModel
    /\ fit = NoFit
    /\ mlast = NoModelCall
    /\ model_b = NoModel
    /\ calls = NoCalls

NextTwo ==
    \/ Construct(0, "numpy", TRUE)
    \/ SwitchModel
    \/ \E g \in LiteralValues : set_interface_condu(1, g)
    \/ \E frequency \in Frequencies, response \in FitResponses : get_phase(frequency, response)
    \/ \E range \in Ranges : minimize(MaxRows, range)
    \/ \E trial \in UNION { [K -> TrialDomain] : K \in SUBSET ParamNames } :
          residuals_enter(trial)
    \/ \E response \in FitResponses : residuals_point(response)
    \/ residuals_return
    \/ minimize_return

SpecTwo == InitTwo /\ [][NextTwo]_vars

----------------------------------------------------------------------------
(* A fit on a domain in which placeholders are assigned to several fields. *)

\* the placeholders get_parameter returns for the added names
PlaceholderValues == {Sym(n) : n \in ParamNames}

\* set_layer_param calls that assign placeholders
PlaceholderParameters ==
    UNION { [K -> PlaceholderValues] :
              K \in {S \in SUBSET {"kxx", "kzz"} : S # {} /\ Cardinality(S) <= MaxKeys} }

InitShared ==
    /\ heat_path = LiteralHeatPath
    /\ top_heat_path = <<>>
    /\ substrate_defined = TRUE
    /\ temperature = DefaultTemperature
    /\ domain_b = NoDomain
    /\ domain_matrix = NoMatrix
    /\ last = NoCall
    /\ nsets = [param |-> 0, condu |-> 0]
    /\ fitting_params = ExampleParameters
    /\ model = NoModel
    /\ fit = NoFit
    /\ mlast = NoModelCall
    /\ model_b = NoModel
    /\ calls = NoCalls

\* the script assigns placeholders, then constructs the model and fits
NextShared ==
    \/ /\ ~model.built
       /\ \E parameter \in PlaceholderParameters : set_layer_param(1, parameter)
    \/ /\ ~model.built
       /\ \E g \in PlaceholderValues : set_interface_condu(1, g)
    \/ Construct(0, "numpy", TRUE)
    \/ minimize(MaxRows, DefaultRange)
    \/ \E trial \in UNION { [K -> TrialDomain] : K \in SUBSET ParamNames } :
          residuals_enter(trial)
    \/ \E response \in FitResponses : residuals_point(response)
    \/ residuals_return
    \/ minimize_return

SpecShared == InitShared /\ [][NextShared]_vars

----------------------------------------------------------------------------
(* A fit whose parameters carry the names of attributes of the model. *)

\* names given to Fitting_parameters.add that are also attributes of the model
ClashNames == {"backend", "omega"}

\* a script that adds parameters, constructs the model on the literal domain
\* and fits
NextClash ==
    \/ \E name \in {"kz"} \cup ClashNames : FitAdd(name)
    \/ Construct(0, "numpy", TRUE)
    \/ minimize(MaxRows, DefaultRange)
    \/ \E trial \in UNION { [K -> TrialDomain] : K \in SUBSET ({"kz"} \cup ClashNames) } :
          residuals_enter(trial)
    \/ \E response \in FitResponses : residuals_point(response)
    \/ residuals_return
    \/ minimize_return

SpecClash == InitUpdate /\ [][NextClash]_vars

----------------------------------------------------------------------------
(* The operations fdtr_examples.py and fdtr_gui.py call besides get_phase   *)
(* and minimize: model.sensitivity_analysis(name, freq_range, steps) and    *)
(* multimodel_fitting(models, datasets, method).  The revision of           *)
(* fouriermodel.py at hand holds neither body; both follow sections 4.4 and *)
(* 4.5 of the specification, and their callers follow the source.           *)

MaxSteps == 3       \* points of a sensitivity sweep
MaxPairs == 2       \* (model, dataset) pairs of a joint fit

\* an operation that perturbs the stored value and does not restore it
StoredLeftPerturbed(parameters, name) ==
    [i \in 1 .. Len(parameters) |->
        IF parameters[i].name = name
        THEN [parameters[i] EXCEPT !.value = @ + 1]
        ELSE parameters[i]]

\* the parameter values the operation leaves stored: the perturbation is
\* applied to a copy, the stored values are as before
StoredAfterSensitivity(parameters, name) == parameters

\* the phase the evaluator reduces a quadrature result to
ReducedPhase(response) ==
    LET a == RawAngle(response)
    IN [raised |-> a.raised, phase |-> IF a.raised = "" THEN FoldPhase(a.raw) ELSE NaN]

\* model.sensitivity_analysis(name, freq_range, steps); base and perturbed are
\* the quadrature results at the current and at the perturbed value
sensitivity_analysis(name, steps, base, perturbed) ==
    /\ model.built
    /\ model.has_fp
    /\ fit.pc = "idle"
    /\ UNCHANGED <<domvars, domain_matrix, fit, peers>>
    /\ LET found == GetParameter(fitting_params, name)
           p0 == ReducedPhase(base)
           p1 == ReducedPhase(perturbed)
           failure == IF found.raised # "" THEN found.raised
                      ELSE IF p0.raised # "" THEN p0.raised
                      ELSE p1.raised
           stored == IF found.raised # "" THEN fitting_params
                     ELSE StoredAfterSensitivity(fitting_params, name)
           items == IF found.raised # "" \/ model.lmfit_params.none
                    THEN model.lmfit_params.items
                    ELSE StoredAfterSensitivity(model.lmfit_params.items, name)
           call == [NoModelCall EXCEPT !.op = "sensitivity_analysis", !.name = name,
                                       !.steps = steps, !.raised = failure,
                                       !.pre = <<fitting_params, model.lmfit_params.items>>,
                                       !.post = <<stored, items>>]
       IN /\ fitting_params' = stored
          /\ model' = [model EXCEPT !.lmfit_params.items = items,
                                    !.omega = IF failure = "" THEN steps ELSE @]
          /\ mlast' = IF failure # "" THEN call
                      ELSE [call EXCEPT
                              !.frequencies = [i \in 1 .. steps |-> i],
                              !.derivative = [i \in 1 .. steps |->
                                                FSub(p1.phase, p0.phase.v)]]

\* the datasets the GUI holds: the measured phase of each point
Datasets == [d1 |-> <<-40, -50>>, d2 |-> <<-45, -55, -65>>]

\* the models the GUI holds
GuiModels == {"m1", "m2"}

\* the phases a pair's model may predict at a trial parameter vector
PredictedPhases == {-60, -45}

\* the lists self.model_dataset_pairs can hold: add_model_dataset_pair
\* refuses a pair that is already listed
PairLists ==
    { l \in UNION { [1 .. n -> GuiModels \X DOMAIN Datasets] : n \in 0 .. MaxPairs } :
        \A i, j \in 1 .. Len(l) : l[i] = l[j] => i = j }

\* predicted - measured at every point of the pair's dataset
PairResidual(pair, predicted) ==
    [k \in 1 .. Len(Datasets[pair[2]]) |-> predicted[pair[1]] - Datasets[pair[2]][k]]

\* a residual function that returns one entry per pair, the sum of the
\* pair's residuals divided by its number of points
RECURSIVE JointResidualAveraged(_, _)
JointResidualAveraged(pairs, predicted) ==
    IF pairs = <<>> THEN <<>>
    ELSE LET r == PairResidual(Head(pairs), predicted)
             RECURSIVE Sum(_)
             Sum(q) == IF q = <<>> THEN 0 ELSE Head(q) + Sum(Tail(q))
         IN << Sum(r) \div Len(r) >> \o JointResidualAveraged(Tail(pairs), predicted)

\* the residual function of the joint fit at one trial vector: the residual
\* vectors of the pairs, one after the other in the order of the list
RECURSIVE JointResidual(_, _)
JointResidual(pairs, predicted) ==
    IF pairs = <<>> THEN <<>>
    ELSE PairResidual(Head(pairs), predicted) \o JointResidual(Tail(pairs), predicted)

\* FDTRGui.start_multimodel_fitting: with no pair it warns and returns;
\* otherwise it collects the models and datasets of the pairs and makes one
\* call of multimodel_fitting(multimodels, multidatasets, method=method);
\* predicted is what the models give at the trial vector of a residual
\* evaluation of that run
start_multimodel_fitting(pairs, predicted) ==
    /\ model.built
    /\ fit.pc = "idle"
    /\ UNCHANGED <<domvars, domain_matrix, fitting_params, model, fit, peers>>
    /\ mlast' = IF pairs = <<>>
                THEN [NoModelCall EXCEPT !.op = "start_multimodel_fitting"]
                ELSE [NoModelCall EXCEPT !.op = "start_multimodel_fitting",
                                         !.pairs = pairs,
                                         !.predicted = predicted,
                                         !.runs = 1,
                                         !.residual = JointResidual(pairs, predicted)]

NextCallers ==
    \/ Construct(0, "numpy", TRUE)
    \/ minimize(MaxRows, DefaultRange)
    \/ \E trial \in UNION { [K -> TrialDomain] : K \in SUBSET ParamNames } :
          residuals_enter(trial)
    \/ \E response \in FitResponses : residuals_point(response)
    \/ residuals_return
    \/ minimize_return
    \/ \E name \in LookupNames, steps \in 1 .. MaxSteps, base, perturbed \in FitResponses :
          sensitivity_analysis(name, steps, base, perturbed)
    \/ \E pairs \in PairLists, predicted \in [GuiModels -> PredictedPhases] :
          start_multimodel_fitting(pairs, predicted)

SpecCallers == InitTwo /\ [][NextCallers]_vars

----------------------------------------------------------------------------
(* get_phase called from several threads on one model, as when the         *)
(* frequencies of one residual evaluation are spread over workers.  A call *)
(* stores its angular frequency in self.omega; the quadrature then calls   *)
(* tointegrate, which reads self.omega at every evaluation point.          *)

MaxReads == 2       \* integrand evaluations of one quadrature

\* thread t enters get_phase(frequency): "self.omega = 2.0*np.pi*frequency"
call_get_phase(t, frequency) ==
    /\ model.built
    /\ fit.pc = "idle"
    /\ calls[t].pc # "integrating"
    /\ model' = [model EXCEPT !.omega = frequency]
    /\ calls' = [calls EXCEPT ![t] = [pc |-> "integrating", frequency |-> frequency,
                                      reads |-> <<>>]]
    /\ UNCHANGED <<domvars, domain_matrix, fitting_params, fit, mlast, model_b>>

\* the quadrature of thread t evaluates the integrand once:
\* "self.lfunction(x, self.omega, ...)" with the omega the model holds now
tointegrate(t) ==
    /\ calls[t].pc = "integrating"
    /\ Len(calls[t].reads) < MaxReads
    /\ calls' = [calls EXCEPT ![t].reads = Append(@, model.omega)]
    /\ UNCHANGED <<domvars, domain_matrix, fitting_params, model, fit, mlast, model_b>>

\* the quadrature of thread t is done and get_phase returns its phase
return_get_phase(t) ==
    /\ calls[t].pc = "integrating"
    /\ Len(calls[t].reads) >= 1
    /\ calls' = [calls EXCEPT ![t].pc = "returned"]
    /\ UNCHANGED <<domvars, domain_matrix, fitting_params, model, fit, mlast, model_b>>

NextPar ==
    \/ \E beamoffset \in BeamOffsets : Construct(beamoffset, "numpy", FALSE)
    \/ \E t \in Threads, frequency \in Frequencies : call_get_phase(t, frequency)
    \/ \E t \in Threads : tointegrate(t)
    \/ \E t \in Threads : return_get_phase(t)

SpecPar == InitUpdate /\ [][NextPar]_vars

----------------------------------------------------------------------------
(* Properties of the Domain builder *)

\* number of layers added on top of the substrate in a heat path
NLayers(hp) == Cardinality({i \in 2 .. Len(hp) : hp[i].kind = "Layer"})

\* the attribute names of a heat-path object
Fields == {"kind", "material", "m1", "m2", "thickness", "cp", "density",
           "kxx", "kyy", "kxy", "kzz", "g"}

\* the fields set_layer_param is specified to replace
SpecifiedKeys == {"cp", "kxx", "kyy", "kzz", "kxy", "thickness"}

\* the last call was set_layer_param on a slot that holds a layer
OnExistingLayerSlot ==
    /\ last.op = "set_layer_param"
    /\ last.index >= 0
    /\ last.index <= NLayers(last.hp)
    /\ 2 * last.index + 1 <= Len(last.hp)
    /\ last.hp[2 * last.index + 1].kind = "Layer"

\* C1: add_substrate on a domain that already has a substrate signals an
\* error to the caller instead of returning normally.
C1_DuplicateSubstrateRaises ==
    (last.op = "add_substrate" /\ Len(last.hp) >= 1 /\ last.hp[1].kind = "Layer")
        => last.raised # ""

\* C2: after any sequence of Domain calls, raising ones included, heat_path
\* is empty or has odd length with a Layer at every even flat index (the
\* substrate at flat index 0) and a LayerInterface at every odd flat index.
C2_HeatPathAlternates ==
    \/ heat_path = <<>>
    \/ /\ Len(heat_path) % 2 = 1
       /\ \A i \in 1 .. Len(heat_path) :
            heat_path[i].kind = (IF i % 2 = 1 THEN "Layer" ELSE "LayerInterface")

\* C3: after set_layer_param on an existing layer slot, every field among
\* cp, kxx, kyy, kzz, kxy, thickness named in the call holds the given value
\* in the layer at flat index 2*slot.
C3_NamedFieldsTakeValue ==
    OnExistingLayerSlot =>
        \A key \in (DOMAIN last.parameter) \cap SpecifiedKeys :
            heat_path[2 * last.index + 1][key] = last.parameter[key]

\* C4: set_layer_param leaves every field of the addressed layer that is
\* not named in the call, every other element of heat_path, and
\* top_heat_path, unchanged.
C4_UnnamedFieldsKept ==
    OnExistingLayerSlot =>
        /\ Len(heat_path) = Len(last.hp)
        /\ \A i \in 1 .. Len(heat_path) :
             i # 2 * last.index + 1 => heat_path[i] = last.hp[i]
        /\ \A f \in Fields \ (DOMAIN last.parameter) :
             heat_path[2 * last.index + 1][f] = last.hp[2 * last.index + 1][f]
        /\ top_heat_path = last.top

\* the last call was set_interface_condu(slot, g) with 1 <= slot <= n
OnExistingInterfaceSlot ==
    /\ last.op = "set_interface_condu"
    /\ last.index >= 1
    /\ last.index <= NLayers(last.hp)

\* C5: for 1 <= slot <= n, set_interface_condu(slot, g) returns normally,
\* sets g of the LayerInterface at flat index 2*slot-1, the element right
\* before layer slot at flat index 2*slot, and changes nothing else in
\* heat_path or top_heat_path.
C5_InterfaceSlotMapping ==
    OnExistingInterfaceSlot =>
        /\ last.raised = ""
        /\ Len(heat_path) = Len(last.hp)
        /\ heat_path[2 * last.index].kind = "LayerInterface"
        /\ heat_path[2 * last.index].g = last.value
        /\ heat_path[2 * last.index + 1].kind = "Layer"
        /\ \A i \in 1 .. Len(heat_path) :
             i # 2 * last.index => heat_path[i] = last.hp[i]
        /\ \A f \in Fields \ {"g"} :
             heat_path[2 * last.index][f] = last.hp[2 * last.index][f]
        /\ top_heat_path = last.top

\* C5 witness: the conductance before the second added layer was just set,
\* on a domain with two added layers
C5_Witness ==
    /\ OnExistingInterfaceSlot
    /\ last.index = 2
    /\ NLayers(last.hp) = 2
    /\ last.raised = ""
    /\ heat_path[4].g = last.value
    /\ last.hp[4].g # last.value

\* C6: set_interface_condu with slot <= 0 or slot > n, and set_layer_param
\* with slot < 0 or slot > n (whatever keywords are passed), raise an error
\* and modify no layer or interface.
C6_UndefinedSlotRaises ==
    (\/ /\ last.op = "set_interface_condu"
        /\ (last.index <= 0 \/ last.index > NLayers(last.hp))
     \/ /\ last.op = "set_layer_param"
        /\ (last.index < 0 \/ last.index > NLayers(last.hp)))
        => (last.raised # "" /\ heat_path = last.hp /\ top_heat_path = last.top)

----------------------------------------------------------------------------
(* Properties of the model and the fit *)

\* C7: constructing a model, or calling get_phase, on a domain that has an
\* interface whose conductance was never set explicitly fails instead of
\* computing with a default value.
C7_UnsetConductanceRejected ==
    (mlast.op \in {"__init__", "get_phase"} /\ mlast.unset_g) => mlast.raised # ""

\* C8: every get_phase that returns has a raw angle a in (-90, 90), returns
\* a when a < 0 and a - 180 otherwise, so the phase lies in [-180, 0).
C8_PhaseFoldedIntoRange ==
    (mlast.op = "get_phase" /\ mlast.raised = "") =>
        /\ mlast.raw.cls = "fin"
        /\ mlast.raw.v > -90 /\ mlast.raw.v < 90
        /\ mlast.phase = (IF mlast.raw.v < 0 THEN mlast.raw ELSE Fin(mlast.raw.v - 180))
        /\ mlast.phase.cls = "fin"
        /\ mlast.phase.v >= -180 /\ mlast.phase.v < 0

\* C9: with minimize's default arguments on N rows of data, a residual
\* evaluation returns N entries, entry i being the phase predicted at the
\* i-th experimental frequency minus the i-th measured phase.
C9_ResidualPerPoint ==
    (fit.nevals >= 1 /\ fit.range = DefaultRange) =>
        /\ Len(fit.residual) = Len(fit.data)
        /\ \A i \in 1 .. Len(fit.residual) :
             /\ fit.residual[i].freq = fit.data[i].freq
             /\ fit.residual[i].value = FSub(fit.residual[i].predicted, fit.data[i].phase)

\* C10: minimize raises the order-mismatch error, before any residual
\* evaluation, whenever the optimizer's ordered names differ from the
\* ordered names of Fitting_parameters, which a repeated name causes; when
\* the lists are equal the check passes and the fit goes on.
C10_OrderMismatchRaised ==
    (mlast.op = "minimize" /\ model.has_fp) =>
        /\ mlast.keys # mlast.names =>
             (mlast.raised = "ValueError: Order mismatch" /\ fit.pc = "idle" /\ mlast.nevals = 0)
        /\ HasDuplicates(mlast.names) => mlast.keys # mlast.names
        /\ mlast.keys = mlast.names =>
             /\ mlast.raised # "ValueError: Order mismatch"
             /\ (mlast.raised = "" /\ fit.pc = "idle") => mlast.nevals >= 1

\* C10 witness: minimize has just failed on a parameter set in which a name
\* was added twice
C10_Witness ==
    /\ mlast.op = "minimize"
    /\ model.has_fp
    /\ HasDuplicates(mlast.names)
    /\ mlast.raised = "ValueError: Order mismatch"
    /\ mlast.nevals = 0
    /\ ~model.lmfit_params.none

\* C11: get_parameter(name) raises an error and leaves the parameter set as it
\* was when no parameter of that name has been added; when one has been added
\* it returns normally the symbolic placeholder of that name.
C11_GetParameterLookup ==
    mlast.op = "get_parameter" =>
        /\ mlast.post = mlast.pre
        /\ IF \E i \in 1 .. Len(mlast.pre) : mlast.pre[i].name = mlast.name
           THEN mlast.raised = "" /\ mlast.returned = Sym(mlast.name)
           ELSE mlast.raised # "" /\ mlast.returned = NoAttr

\* C11 witness: a lookup of a name that was never added has just raised on a
\* parameter set that holds other names
C11_Witness ==
    /\ mlast.op = "get_parameter"
    /\ mlast.name = "g1"
    /\ Len(mlast.pre) >= 2
    /\ mlast.raised = "ValueError: Parameter not found"
    /\ fitting_params = mlast.pre

\* C12: after any sequence of Fitting_parameters.add calls, repeated adds of
\* one name included, the parameter set holds at most one entry per name.
C12_ParameterNamesUnique ==
    ~HasDuplicates(FittingNames(fitting_params))

\* C13: when the domain was changed with literal values after the model was
\* constructed and model.update() has returned, the cached composite matrix
\* is the composite matrix of the heat path as it is when update returns, and
\* the compiled integrand is derived from it.
C13_UpdateRebuildsCache ==
    (mlast.op = "update" /\ mlast.raised = "") => mlast.fresh

\* C14: constructing a model with beam offset 0 on a domain whose top path
\* holds a layer succeeds, caches the ordered product of the top path's
\* matrices as the top matrix, and keeps the composite matrix of heat_path
\* as the main matrix, in the model and in the domain.
C14_TopPathCombined ==
    (mlast.op = "__init__" /\ mlast.beamoffset = 0 /\ mlast.ntop >= 1) =>
        /\ mlast.raised = ""
        /\ model.built
        /\ model.topmatrix = [none |-> FALSE, factors |-> TransferProduct(top_heat_path)]
        /\ model.matrix = [none |-> FALSE, factors |-> TransferProduct(heat_path)]
        /\ domain_matrix = model.matrix

\* C15: whatever the backend, get_phase integrates over [0, U] when the beam
\* offset is 0 and over the square [-U, U] x [-U, U] otherwise, with
\* U = 20/sqrt(r_pump^2 + r_probe^2) not depending on the beam offset, so
\* that 'numpy' and 'mpmath' integrate over the same region.
C15_BackendsShareRegion ==
    mlast.op = "get_phase" =>
        mlast.region = [dim |-> IF mlast.beamoffset = 0 THEN 1 ELSE 2,
                        denom |-> Rpump * Rpump + Rprobe * Rprobe]

\* C16: when two get_phase calls with different frequencies run concurrently
\* on one model, under every interleaving each call evaluates its integrand
\* only at its own angular frequency.
C16_OwnFrequencyOnly ==
    \A t \in Threads :
        \A i \in 1 .. Len(calls[t].reads) : calls[t].reads[i] = calls[t].frequency

\* a step of a call on model: everything but the exchange of the two models
ModelCallStep ==
    /\ (model' # model \/ fit' # fit \/ mlast' # mlast)
    /\ ~(model' = model_b /\ model_b' = model /\ fit' = fit /\ mlast' = mlast)

\* C17: no step of a get_phase or minimize call (or of the constructor) on one
\* model changes the other model built on the same Domain and
\* Fitting_parameters (its cached matrix, compiled function, optimizer
\* parameter values, stored frequency), nor the Domain's layers and
\* interfaces, nor the Fitting_parameters entries.
C17_NoSharedModelState ==
    [][ModelCallStep =>
          /\ model_b' = model_b
          /\ heat_path' = heat_path
          /\ top_heat_path' = top_heat_path
          /\ fitting_params' = fitting_params]_vars

\* C17 witness: both models have run a fit, and the residual evaluation in
\* progress on one has stored trial values that differ from the values the
\* other keeps
C17_Witness ==
    /\ model.built /\ model_b.built
    /\ ~model.lmfit_params.none /\ ~model_b.lmfit_params.none
    /\ model.lmfit_params.id # model_b.lmfit_params.id
    /\ fit.pc = "loop"
    /\ model.lmfit_params.items # model_b.lmfit_params.items
    /\ model.omega # model_b.omega

\* the integrated response is degenerate: real part 0 or a non-finite part
Degenerate(response) ==
    \/ response.re.cls # "fin"
    \/ response.im.cls # "fin"
    \/ response.re.v = 0

\* C18: when the integrated response is degenerate, get_phase reports a
\* failure to the caller; it never returns NaN as a phase.
C18_NoSilentNaN ==
    mlast.op = "get_phase" =>
        /\ Degenerate(mlast.response) => mlast.raised # ""
        /\ mlast.raised = "" => mlast.phase.cls # "nan"

PointsBefore(pairs, n) ==
    LET RECURSIVE Count(_)
        Count(i) == IF i = 0 THEN 0 ELSE Len(Datasets[pairs[i][2]]) + Count(i - 1)
    IN Count(n)

UnitUm == 1000

\* the last call was an add_substrate that returned after inserting
SubstrateInserted ==
    /\ last.op = "add_substrate"
    /\ last.hp = <<>>
    /\ last.raised = ""
    /\ ~last.printed

\* the layer carries its material's properties at the domain temperature
CarriesMaterial(obj) ==
    /\ obj.kind = "Layer"
    /\ \A f \in {"cp", "kxx", "kyy", "kzz", "kxy"} :
          obj[f] = Num(MaterialProps(obj.material, temperature)[f])

\* C21 as stated: add_substrate on a domain without a substrate inserts at
\* flat index 0 a layer with the material's cp, kxx, kyy, kzz, kxy at the
\* domain temperature and a thickness of 10 micrometres (1e-3 cm).
C21_SubstrateTenMicrometres ==
    SubstrateInserted =>
        /\ Len(heat_path) = 1
        /\ CarriesMaterial(heat_path[1])
        /\ heat_path[1].thickness = Num(10 * UnitUm)

\* C21 amended: the inserted layer has the material's properties at the
\* domain temperature and a thickness of 0.01 cm, which is 100 micrometres.
C21_SubstrateHundredMicrometres ==
    SubstrateInserted =>
        /\ Len(heat_path) = 1
        /\ CarriesMaterial(heat_path[1])
        /\ heat_path[1].thickness = Num(100 * UnitUm)

\* C21 witness: a sapphire substrate was just inserted into an empty domain
\* whose temperature had been set to 80 K
C21_Witness ==
    /\ SubstrateInserted
    /\ Len(heat_path) = 1
    /\ temperature = ColdTemperature
    /\ heat_path[1].material = "Sapphire"
    /\ heat_path[1].kzz = Num(6702)
    /\ heat_path[1].thickness = Num(SubstrateThickness)

\* the field holds a value a caller has put there, not a material-table value
Overridden(obj, f) == obj.kind = "Layer" /\ obj[f] \in OverrideValues

\* C27: Domain.set_temperature leaves every overridden cp, kxx, kyy, kzz, kxy
\* (literal or placeholder), every thickness and every interface conductance
\* as it was.
C27_TemperatureKeepsOverrides ==
    last.op = "set_temperature" =>
        /\ Len(heat_path) = Len(last.hp)
        /\ \A i \in 1 .. Len(last.hp) :
             /\ heat_path[i].thickness = last.hp[i].thickness
             /\ heat_path[i].g = last.hp[i].g
             /\ \A f \in {"cp", "kxx", "kyy", "kzz", "kxy"} :
                  Overridden(last.hp[i], f) => heat_path[i][f] = last.hp[i][f]

\* C22: calc_transfer_matrix stores the product I * M_0 * M_1 * ... * M_(n-1)
\* of the element matrices in flat-index order, the substrate's first; for a
\* domain holding only a substrate it is the substrate layer's own matrix.
C22_CompositeInPathOrder ==
    last.op = "calc_transfer_matrix" =>
        /\ ~domain_matrix.none
        /\ Len(domain_matrix.factors) = Len(heat_path)
        /\ \A i \in 1 .. Len(heat_path) :
             domain_matrix.factors[i] = getFourier_Matrix(heat_path[i])
        /\ Len(heat_path) = 1 => domain_matrix.factors = <<getFourier_Matrix(heat_path[1])>>

\* C22 witness: the composite matrix of substrate, interface and one layer
\* was just computed, the layer holding a placeholder
C22_Witness ==
    /\ last.op = "calc_transfer_matrix"
    /\ Len(heat_path) = 3
    /\ Len(domain_matrix.factors) = 3
    /\ domain_matrix.factors[1].thickness = Num(SubstrateThickness)
    /\ domain_matrix.factors[2].kind = "LayerInterface"
    /\ domain_matrix.factors[3].kzz = Sym("kz")

\* C23: while the get_phase calls of one residual evaluation run, from
\* before the first until the last has returned, the model's parameter
\* values are the trial values of that evaluation, for every fitting
\* parameter: none is still at an older value and none changes in between.
C23_TrialWrittenBeforePhases ==
    fit.pc = "loop" =>
        /\ LmfitKeys(model.lmfit_params.items) = FittingNames(fitting_params)
        /\ \A i \in 1 .. Len(model.lmfit_params.items) :
             model.lmfit_params.items[i].value =
                 fit.params[model.lmfit_params.items[i].name]
        /\ \A n \in DOMAIN fit.params : model.attrs[n] = fit.params[n]

\* C23 witness: in a second residual evaluation on two parameters, one
\* get_phase has returned and both parameters hold trial values other than
\* their initial ones
C23_Witness ==
    /\ fit.pc = "loop"
    /\ fit.nevals >= 1
    /\ fit.k >= 1
    /\ Len(model.lmfit_params.items) = 2
    /\ \A i \in 1 .. 2 : model.lmfit_params.items[i].value # fitting_params[i].value

\* the fields of the compiled integrand that hold the placeholder named n
FieldsHolding(m, n) ==
    { <<i, f>> \in (1 .. Len(m.lfunction.factors)) \X {"kxx", "kzz", "kxy", "cp", "thickness", "g"} :
        m.lfunction.factors[i][f].sym = n }

\* C24: in every integrand evaluation of a fit, every field that holds the
\* placeholder of a fitting parameter is evaluated with the current trial
\* value of the parameter of that name, the same for all fields holding it.
C24_PlaceholderBoundByName ==
    \A j \in 1 .. Len(fit.phase) :
        \A n \in ParamNames :
            FieldsHolding(model, n) # {} =>
                /\ n \in DOMAIN fit.phase[j].bound
                /\ fit.phase[j].bound[n] = fit.params[n]

\* C24 witness: an evaluation has run in which kz sits in two fields and
\* thick in another, the two parameters at different trial values
C24_Witness ==
    /\ Len(fit.phase) >= 1
    /\ Cardinality(FieldsHolding(model, "kz")) >= 2
    /\ Cardinality(FieldsHolding(model, "thick")) >= 1
    /\ fit.params["kz"] # fit.params["thick"]
    /\ fit.nevals >= 1

\* C25: on a model constructed with a non-empty fitting-parameter set,
\* get_phase supplies a value for every compiled placeholder in any state,
\* also before the first minimize, and does not fail for missing arguments.
C25_PlaceholdersAlwaysSupplied ==
    (mlast.op = "get_phase" /\ model.has_fp /\ Len(model.lfunction.args) >= 1) =>
        mlast.raised # "TypeError"

\* C26: whatever the names of the fitting parameters, names of model
\* attributes included, minimize leaves the model's beam offset, backend,
\* cached matrices and compiled function as they were before the call.
C26_MinimizeKeepsSettings ==
    (mlast.op = "minimize" /\ mlast.pre # <<>>) => ModelSettings(model) = mlast.pre

\* C28: while residuals evaluates the integrand during a minimize, the
\* parameter values handed to the compiled function are as many as, and in
\* the order of, the placeholders it was compiled with, also when add was
\* called on the parameter set after the model was constructed.
C28_ArgumentsMatchParameters ==
    (model.built /\ model.has_fp /\ ~model.lmfit_params.none /\ fit.pc = "loop") =>
        LmfitKeys(model.lmfit_params.items) = model.lfunction.args

\* C30: substrate existence is tracked per Domain object: a Domain whose
\* heat path is empty still accepts its first add_substrate whatever was
\* called on the other Domain, and no call on one Domain changes the other.
C30_SubstratePerDomain ==
    /\ [](/\ heat_path = <<>> => ~substrate_defined
          /\ domain_b.heat_path = <<>> => ~domain_b.substrate_defined)
    /\ [][last' # last => domain_b' = domain_b]_vars

\* the second Domain received its substrate after the first one had its own
C30_Witness ==
    /\ last.op = "add_substrate" /\ last.raised = "" /\ ~last.printed
    /\ Len(heat_path) = 1 /\ substrate_defined
    /\ domain_b.substrate_defined /\ Len(domain_b.heat_path) >= 1
    /\ domain_b.temperature # temperature

\* C29: minimize leaves every Fitting_parameters entry as add stored it,
\* and each minimize call starts the optimizer's parameters from those
\* originally added values, also after an earlier fit tried other values.
C29_ParametersKeptByMinimize ==
    /\ \A i \in 1 .. Len(fitting_params) :
          fitting_params[i] = ParamDefaults(fitting_params[i].name)
    /\ (mlast.op = "minimize" /\ fit.pc = "lmfit" /\ fit.nevals = 0) =>
          \A i \in 1 .. Len(model.lmfit_params.items) :
             model.lmfit_params.items[i].value =
                ParamDefaults(model.lmfit_params.items[i].name).value

\* a minimize call has just begun on a model whose earlier fit ended on a
\* trial value of kz other than the initial one
C29_Witness ==
    /\ mlast.op = "minimize" /\ mlast.raised = ""
    /\ fit.pc = "lmfit" /\ fit.nevals = 0
    /\ model.attrs["kz"] = ParamDefaults("kz").max
    /\ model.lmfit_params.items = << [name |-> "kz", value |-> ParamDefaults("kz").value] >>

====
